---- MODULE Spec2Model ----
(***************************************************************************)
(* Minesweeper (zun-zs/minesweeper): the board engine of src/js/board.js   *)
(* and the game controller of src/js/script.js, as a state machine.        *)
(*                                                                         *)
(* The three objects the controller owns are the variables: state          *)
(* (MinesweeperState), board (GameBoard, with its DOM cells) and timer     *)
(* (GameTimer).  boardListeners is the event manager's registration of the *)
(* board's delegated listeners.  lastOp is a history variable: the handler *)
(* that ran last (button presses that reach no chord, and releases, apart) *)
(* and the phase it ran in.  form is the settings form: the difficulty     *)
(* select, the three custom inputs' values, and whether a debounced        *)
(* validateCustomInputs is pending.  page is the rest of the page the      *)
(* controller reads and writes: document.hidden, the clock (Date.now, in   *)
(* seconds), localStorage, the statistics, the end message, and whether an *)
(* exception has left a handler.                                           *)
(*                                                                         *)
(* A DOM cell is a record: mine (dataset.mine = "true"), revealed (class   *)
(* "revealed"), mark (dataset.mark; unset and "" are both falsy and both   *)
(* differ from "flag", the only ways the code reads it, so both are ""),   *)
(* text (textContent) and mineClass (class "mine" / "mine-win").  The      *)
(* "highlight" class is presentation only and is not modelled.             *)
(***************************************************************************)
EXTENDS Integers, Sequences, FiniteSets, TLC

VARIABLES state, board, timer, boardListeners, lastOp, form, page

vars == <<state, board, timer, boardListeners, lastOp, form, page>>

(***************************************************************************)
(* Bounds.  The constructor builds the 9x9 board with 10 mines of          *)
(* DIFFICULTY_SETTINGS.easy; exhaustive exploration needs a smaller board, *)
(* so the constructed board ranges over every width x height of at most    *)
(* MaxCells cells and MaxHeight rows, with every valid mine count.         *)
(***************************************************************************)
MaxCells == 4
MaxHeight == 2

\* With the page's events: boards of at most PageCells cells, and the clock
\* (Date.now, in seconds since the page loaded) runs from 0 to MaxTime.
PageCells == 2
MaxTime == 2

\* With the mouse buttons' physical state: boards of at most MouseCells
\* cells.
MouseCells == 3

\* template literal `${row},${col}` (board.js 38, 49)
PositionKey(row, col) == ToString(row) \o "," \o ToString(col)

Positions(width, height) == (0 .. height - 1) \X (0 .. width - 1)

\* position.split(",").map(Number) (script.js 429)
SplitPosition(position) ==
    CHOOSE p \in (0 .. MaxCells + 1) \X (0 .. MaxCells + 1) :
        PositionKey(p[1], p[2]) = position

\* textContent of a revealed numbered cell, and parseInt of it
Digits == <<"1", "2", "3", "4", "5", "6", "7", "8", "9">>
NumberText(n) == Digits[n]
NaN == -2
ParseInt(text) ==
    IF \E n \in 1 .. 9 : Digits[n] = text
    THEN CHOOSE n \in 1 .. 9 : Digits[n] = text
    ELSE NaN

Undefined == -1

\* parseInt(cell.dataset.row), parseInt(cell.dataset.col)
ParseIndex(text) == CHOOSE n \in 0 .. MaxCells + 1 : ToString(n) = text

\* textContent set by handleBoardRightClick and endGame
FlagText == "flag-sign"
QuestionText == "?"
BombText == "bomb-sign"

\* GameBoard.createCell: className "cell", dataset.row, dataset.col
createCell(row, col) ==
    [row |-> ToString(row), col |-> ToString(col),
     mine |-> FALSE, revealed |-> FALSE, mark |-> "", text |-> "", mineClass |-> ""]

\* new GameBoard(width, height) followed by initializeBoard()
initializeBoard(width, height) ==
    [width |-> width,
     height |-> height,
     cells |-> [p \in Positions(width, height) |-> createCell(p[1], p[2])],
     minePositions |-> {},
     cellCache |-> [p \in Positions(width, height) |-> Undefined],
     adjacentCellsCache |-> <<>>]

\* new MinesweeperState(width, height, mines)
MinesweeperState(width, height, mines) ==
    [boardWidth |-> width,
     boardHeight |-> height,
     mineCount |-> mines,
     gameOver |-> FALSE,
     firstClick |-> TRUE,
     gameWon |-> FALSE,
     leftMouseDown |-> FALSE,
     rightMouseDown |-> FALSE,
     revealedCount |-> 0]

\* new GameTimer(element): animationId = null; display is the element's
\* textContent, in seconds
GameTimer ==
    [running |-> FALSE, startTime |-> 0, lastDisplayedSeconds |-> -1, display |-> 0]

(***************************************************************************)
(* GameBoard (src/js/board.js).  Each operator takes the board b and       *)
(* returns the board after the call together with the method's result.     *)
(***************************************************************************)

\* GameBoard.isValidCell
isValidCell(b, row, col) ==
    row >= 0 /\ row < b.height /\ col >= 0 /\ col < b.width

\* getAdjacentCells with the column alone for cache key
getAdjacentCellsKeyedByCol(b, row, col) ==
    LET key == ToString(col)
    IN  IF key \in DOMAIN b.adjacentCellsCache
        THEN [board |-> b, cells |-> b.adjacentCellsCache[key]]
        ELSE LET block == [k \in 1 .. 9 |->
                             <<row + ((k - 1) \div 3) - 1, col + ((k - 1) % 3) - 1>>]
                 cells == SelectSeq(block, LAMBDA p : isValidCell(b, p[1], p[2]))
             IN  [board |-> [b EXCEPT !.adjacentCellsCache = (key :> cells) @@ @],
                  cells |-> cells]

\* GameBoard.getAdjacentCells: the cells of the 3x3 block around (row, col),
\* in the order of the two loops, memoized by key.  The block's centre passes
\* isValidCell and is pushed like the others.
getAdjacentCells(b, row, col) ==
    LET key == PositionKey(row, col)
    IN  IF key \in DOMAIN b.adjacentCellsCache
        THEN [board |-> b, cells |-> b.adjacentCellsCache[key]]
        ELSE LET block == [k \in 1 .. 9 |->
                             <<row + ((k - 1) \div 3) - 1, col + ((k - 1) % 3) - 1>>]
                 cells == SelectSeq(block, LAMBDA p : isValidCell(b, p[1], p[2]))
             IN  [board |-> [b EXCEPT !.adjacentCellsCache = (key :> cells) @@ @],
                  cells |-> cells]

\* countAdjacentMines counting in the row and the column of the cell only
countAdjacentMinesOrthogonal(b, row, col) ==
    LET adj == getAdjacentCells(b, row, col)
    IN  [board |-> adj.board,
         count |-> Len(SelectSeq(adj.cells,
                                 LAMBDA p : /\ adj.board.cells[p].mine
                                            /\ (p[1] = row \/ p[2] = col)))]

\* GameBoard.countAdjacentMines
countAdjacentMines(b, row, col) ==
    LET adj == getAdjacentCells(b, row, col)
    IN  [board |-> adj.board,
         count |-> Len(SelectSeq(adj.cells, LAMBDA p : adj.board.cells[p].mine))]

\* revealCell refusing revealed cells only, not marked ones
revealCellIgnoresMark(b, row, col) ==
    LET pos == <<row, col>>
        cell == b.cells[pos]
    IN  IF cell.revealed
        THEN [board |-> b, result |-> FALSE]
        ELSE LET b1 == [b EXCEPT !.cells[pos].revealed = TRUE]
                 cached == b1.cellCache[pos]
                 counted == countAdjacentMines(b1, row, col)
                 mineCount == IF cached = Undefined THEN counted.count ELSE cached
                 b2 == IF cached = Undefined
                       THEN [counted.board EXCEPT !.cellCache[pos] = mineCount]
                       ELSE b1
                 b3 == IF mineCount > 0
                       THEN [b2 EXCEPT !.cells[pos].text = NumberText(mineCount)]
                       ELSE b2
             IN  [board |-> b3, result |-> mineCount = 0]

\* revealCell refusing marked cells only, not revealed ones
revealCellAgain(b, row, col) ==
    LET pos == <<row, col>>
        cell == b.cells[pos]
    IN  IF cell.mark # ""
        THEN [board |-> b, result |-> FALSE]
        ELSE LET b1 == [b EXCEPT !.cells[pos].revealed = TRUE]
                 cached == b1.cellCache[pos]
                 counted == countAdjacentMines(b1, row, col)
                 mineCount == IF cached = Undefined THEN counted.count ELSE cached
                 b2 == IF cached = Undefined
                       THEN [counted.board EXCEPT !.cellCache[pos] = mineCount]
                       ELSE b1
                 b3 == IF mineCount > 0
                       THEN [b2 EXCEPT !.cells[pos].text = NumberText(mineCount)]
                       ELSE b2
             IN  [board |-> b3, result |-> mineCount = 0]

\* GameBoard.revealCell(row, col): the third argument script.js passes
\* (this.state) is not a parameter of the method and is ignored.
revealCell(b, row, col) ==
    LET pos == <<row, col>>
        cell == b.cells[pos]
    IN  IF cell.revealed \/ cell.mark # ""
        THEN [board |-> b, result |-> FALSE]
        ELSE LET b1 == [b EXCEPT !.cells[pos].revealed = TRUE]
                 cached == b1.cellCache[pos]
                 counted == countAdjacentMines(b1, row, col)
                 mineCount == IF cached = Undefined THEN counted.count ELSE cached
                 b2 == IF cached = Undefined
                       THEN [counted.board EXCEPT !.cellCache[pos] = mineCount]
                       ELSE b1
                 b3 == IF mineCount > 0
                       THEN [b2 EXCEPT !.cells[pos].text = NumberText(mineCount)]
                       ELSE b2
             IN  [board |-> b3, result |-> mineCount = 0]

\* placeMines without the test (row !== excludeRow || col !== excludeCol)
PlaceMinesAnywhere(b, mineCount, excludeRow, excludeCol) ==
    LET have == {SplitPosition(k) : k \in b.minePositions}
        free == Positions(b.width, b.height) \ have
    IN  IF Cardinality(have) >= mineCount
        THEN {have}
        ELSE {have \cup S : S \in {T \in SUBSET free :
                                     Cardinality(T) = mineCount - Cardinality(have)}}

\* placeMines drawing rows with Math.round instead of Math.floor: the row
\* below the last one can be drawn
PlaceMinesPastEdge(b, mineCount, excludeRow, excludeCol) ==
    LET have == {SplitPosition(k) : k \in b.minePositions}
        free == (((0 .. b.height) \X (0 .. b.width - 1)) \ have)
                   \ {<<excludeRow, excludeCol>>}
    IN  IF Cardinality(have) >= mineCount
        THEN {have}
        ELSE {have \cup S : S \in {T \in SUBSET free :
                                     Cardinality(T) = mineCount - Cardinality(have)}}

\* The results of GameBoard.placeMines(mineCount, excludeRow, excludeCol):
\* the loop adds drawn positions that are neither present nor the excluded
\* cell until the set has mineCount elements.  It returns only if such a set
\* exists; the random draws decide which one.
PlaceMinesOutcomes(b, mineCount, excludeRow, excludeCol) ==
    LET have == {SplitPosition(k) : k \in b.minePositions}
        free == (Positions(b.width, b.height) \ have) \ {<<excludeRow, excludeCol>>}
    IN  IF Cardinality(have) >= mineCount
        THEN {have}
        ELSE {have \cup S : S \in {T \in SUBSET free :
                                     Cardinality(T) = mineCount - Cardinality(have)}}

\* GameBoard.placeMines, with the set of mines its draws produce
placeMines(b, mines) ==
    [b EXCEPT !.minePositions = {PositionKey(p[1], p[2]) : p \in mines},
              !.cells = [p \in DOMAIN b.cells |->
                            IF p \in mines /\ PositionKey(p[1], p[2]) \notin b.minePositions
                            THEN [b.cells[p] EXCEPT !.mine = TRUE]
                            ELSE b.cells[p]]]

\* GameBoard.reset
reset(b) ==
    [b EXCEPT !.minePositions = {},
              !.adjacentCellsCache = <<>>,
              !.cellCache = [p \in DOMAIN b.cells |-> Undefined]]

(***************************************************************************)
(* GameTimer (src/js/timer.js): running is animationId # null, now is      *)
(* Date.now() in seconds.                                                  *)
(***************************************************************************)
getCurrentTime(t, now) == now - t.startTime

TimerUpdate(t, now) == [t EXCEPT !.display = now - t.startTime]

TimerStart(t, now) ==
    IF t.running
    THEN t
    ELSE TimerUpdate([t EXCEPT !.startTime = now,
                               !.lastDisplayedSeconds = -1,
                               !.running = TRUE], now)

TimerStop(t) == [t EXCEPT !.running = FALSE]

TimerReset(t) == [TimerStop(t) EXCEPT !.display = 0]

\* The requestAnimationFrame callback of start()
updateTimer(t, now) ==
    IF ~t.running
    THEN t
    ELSE LET currentSeconds == now - t.startTime
         IN  IF currentSeconds # t.lastDisplayedSeconds
             THEN TimerUpdate([t EXCEPT !.lastDisplayedSeconds = currentSeconds], now)
             ELSE t

(***************************************************************************)
(* The page around the board.  storage is localStorage: each entry is <<>> *)
(* when absent and <<value>> when set; storageFull says that setItem       *)
(* throws (quota exceeded, storage disabled).  message is the end-message  *)
(* element and bodyClass the game class on document.body.  showFrames and  *)
(* hideTimeouts count the pending requestAnimationFrame callbacks of       *)
(* showMessage and the pending setTimeout callbacks of endGame.  uncaught  *)
(* records that an exception has left an event handler.  pausedAt is a     *)
(* history field: the elapsed time when hiding the page last stopped the   *)
(* timer.  held says which mouse buttons (0 left, 2 right) are physically  *)
(* down; only the actions of MouseSpec track it.                           *)
(***************************************************************************)
Infinity == -3
Null == -4

WinText == "you-won"
LoseText == "game-over"

\* this.stats of the constructor
DefaultStats ==
    [d \in {"easy", "medium", "hard", "custom"} |->
        [gamesPlayed |-> 0, wins |-> 0, bestTime |-> Infinity]]

LoadedPage ==
    [hidden |-> FALSE, now |-> 0, storageFull |-> FALSE,
     storage |-> [state |-> <<>>, stats |-> <<>>],
     stats |-> DefaultStats,
     message |-> [display |-> "", text |-> "", visible |-> FALSE],
     bodyClass |-> "", showFrames |-> 0, hideTimeouts |-> 0,
     uncaught |-> FALSE, pausedAt |-> 0,
     held |-> [button \in {0, 2} |-> FALSE]]

\* GameStorage.saveStats: setItem is not guarded
saveStats(pg, stats) ==
    IF pg.storageFull
    THEN [page |-> pg, threw |-> TRUE]
    ELSE [page |-> [pg EXCEPT !.storage.stats = <<stats>>], threw |-> FALSE]

\* GameStorage.saveGameState(state, minePositions, cells): arguments is the
\* sequence of the arguments of the call.  Array.from(undefined) and
\* undefined.map throw a TypeError before the try block is entered.
saveGameState(pg, arguments) ==
    IF Len(arguments) < 3
    THEN [pg EXCEPT !.uncaught = TRUE]
    ELSE LET gameState ==
                 [state |-> arguments[1],
                  minePositions |-> arguments[2],
                  revealed |-> [p \in DOMAIN arguments[3] |->
                                   [isRevealed |-> arguments[3][p].revealed,
                                    mark |-> arguments[3][p].mark,
                                    content |-> arguments[3][p].text]]]
         IN  IF pg.storageFull
             THEN pg
             ELSE [pg EXCEPT !.storage.state = <<gameState>>]

\* GameStorage.loadGameState: <<>> for null, <<gameState>> otherwise
loadGameState(pg) == pg.storage.state

\* MinesweeperUI.showMessage; the visible class is added at the next frame
showMessage(pg, text, isWin) ==
    [pg EXCEPT !.message.display = "block",
               !.message.text = text,
               !.bodyClass = IF isWin THEN "gameWon" ELSE "gameLost",
               !.showFrames = @ + 1]

\* MinesweeperUI.hideMessage
hideMessage(pg) == [pg EXCEPT !.message.visible = FALSE]

(***************************************************************************)
(* Minesweeper (src/js/script.js).  g is the controller: its state, board  *)
(* and timer, with the page and the settings form it reads.                *)
(***************************************************************************)

\* Minesweeper.updateStats; threw says that saveStats threw.  The statistics
\* labels written by updateStatsDisplay are not part of the model.
updateStats(g, time) ==
    LET difficulty == g.form.difficulty
    IN  IF difficulty \notin DOMAIN g.page.stats
        THEN [g |-> g, threw |-> FALSE]
        ELSE LET stats == g.page.stats[difficulty]
                 played == [stats EXCEPT !.gamesPlayed = @ + 1]
                 counted ==
                     IF g.state.gameWon /\ time # Null
                     THEN [played EXCEPT
                              !.wins = @ + 1,
                              !.bestTime = IF time < @ \/ @ = Infinity THEN time ELSE @]
                     ELSE played
                 updated == [g.page EXCEPT !.stats[difficulty] = counted]
                 saved == saveStats(updated, updated.stats)
             IN  [g |-> [g EXCEPT !.page = saved.page], threw |-> saved.threw]

\* The end of endGame: updateStats, showMessage, setTimeout(hideMessage)
announce(g, won) ==
    LET counted == updateStats(g, IF won THEN getCurrentTime(g.timer, g.page.now)
                                         ELSE Null)
    IN  IF counted.threw
        THEN [counted.g EXCEPT !.page.uncaught = TRUE]
        ELSE [counted.g EXCEPT
                 !.page = [showMessage(@, IF won THEN WinText ELSE LoseText, won)
                              EXCEPT !.hideTimeouts = @ + 1]]

\* endGame without this.timer.stop()
endGameTimerRuns(g, won) ==
    LET mines == {SplitPosition(k) : k \in g.board.minePositions}
    IN  announce([g EXCEPT
                  !.state.gameOver = TRUE,
                  !.state.gameWon = won,
                  !.board.cells = [p \in DOMAIN @ |->
                        IF p \in mines
                        THEN [@[p] EXCEPT !.mineClass = IF won THEN "mine-win" ELSE "mine",
                                          !.text = BombText]
                        ELSE @[p]]], won)

\* Minesweeper.endGame
endGame(g, won) ==
    LET mines == {SplitPosition(k) : k \in g.board.minePositions}
    IN  announce([g EXCEPT
                  !.timer = TimerStop(@),
                  !.state.gameOver = TRUE,
                  !.state.gameWon = won,
                  !.board.cells = [p \in DOMAIN @ |->
                        IF p \in mines
                        THEN [@[p] EXCEPT !.mineClass = IF won THEN "mine-win" ELSE "mine",
                                          !.text = BombText]
                        ELSE @[p]]], won)

\* checkWin comparing with <= instead of ===
checkWinAtLeast(g) ==
    IF g.state.gameWon
    THEN g
    ELSE IF g.state.revealedCount
              <= g.state.boardWidth * g.state.boardHeight - g.state.mineCount
         THEN endGame(g, TRUE)
         ELSE g

\* Minesweeper.checkWin
checkWin(g) ==
    IF g.state.gameWon
    THEN g
    ELSE IF g.state.revealedCount
              = g.state.boardWidth * g.state.boardHeight - g.state.mineCount
         THEN endGame(g, TRUE)
         ELSE g

\* The for loop of revealAdjacentCells over adjacentCells, from index k
RECURSIVE scanAdjacent(_, _, _, _)
scanAdjacent(b, queue, adjacentCells, k) ==
    IF k > Len(adjacentCells)
    THEN [board |-> b, queue |-> queue, hitMine |-> FALSE]
    ELSE LET cell == b.cells[adjacentCells[k]]
         IN  IF ~cell.revealed /\ cell.mark # "flag"
             THEN IF cell.mine
                  THEN [board |-> b, queue |-> queue, hitMine |-> TRUE]
                  ELSE LET cellRow == ParseIndex(cell.row)
                           cellCol == ParseIndex(cell.col)
                           r == revealCell(b, cellRow, cellCol)
                       IN  scanAdjacent(r.board,
                                        IF r.result
                                        THEN Append(queue, <<cellRow, cellCol>>)
                                        ELSE queue,
                                        adjacentCells, k + 1)
             ELSE scanAdjacent(b, queue, adjacentCells, k + 1)

\* The while loop leaving after its first iteration: the neighbours of the
\* first cell are revealed, the queue they fill is dropped
revealLoopOnce(b, queue) ==
    IF queue = <<>>
    THEN [board |-> b, hitMine |-> FALSE]
    ELSE LET current == Head(queue)
             adj == getAdjacentCells(b, current[1], current[2])
             s == scanAdjacent(adj.board, Tail(queue), adj.cells, 1)
         IN  [board |-> s.board, hitMine |-> s.hitMine]

\* The while loop of revealAdjacentCells
RECURSIVE revealLoop(_, _)
revealLoop(b, queue) ==
    IF queue = <<>>
    THEN [board |-> b, hitMine |-> FALSE]
    ELSE LET current == Head(queue)
             adj == getAdjacentCells(b, current[1], current[2])
             s == scanAdjacent(adj.board, Tail(queue), adj.cells, 1)
         IN  IF s.hitMine
             THEN [board |-> s.board, hitMine |-> TRUE]
             ELSE revealLoop(s.board, s.queue)

\* Minesweeper.revealAdjacentCells
revealAdjacentCells(g, row, col) ==
    LET r == revealLoop(g.board, <<<<row, col>>>>)
        g1 == [g EXCEPT !.board = r.board]
    IN  IF r.hitMine THEN endGame(g1, FALSE) ELSE checkWin(g1)

\* handleBoardClick running revealAdjacentCells whatever revealCell returned
handleBoardClickAlwaysFloods(g, row, col, mines) ==
    IF g.state.gameOver
    THEN g
    ELSE LET g1 == IF g.state.firstClick
                   THEN [g EXCEPT !.board = placeMines(@, mines),
                                  !.state.firstClick = FALSE,
                                  !.timer = TimerStart(@, g.page.now)]
                   ELSE g
             cell == g1.board.cells[<<row, col>>]
         IN  IF cell.mark # ""
             THEN g1
             ELSE IF cell.mine
                  THEN endGame(g1, FALSE)
                  ELSE LET r == revealCell(g1.board, row, col)
                           g2 == [g1 EXCEPT !.board = r.board]
                       IN  checkWin(revealAdjacentCells(g2, row, col))

\* handleBoardClick taking the mine away from a clicked mine and revealing it
handleBoardClickDefuses(g, row, col, mines) ==
    IF g.state.gameOver
    THEN g
    ELSE LET g1 == IF g.state.firstClick
                   THEN [g EXCEPT !.board = placeMines(@, mines),
                                  !.state.firstClick = FALSE,
                                  !.timer = TimerStart(@, g.page.now)]
                   ELSE g
             cell == g1.board.cells[<<row, col>>]
         IN  IF cell.mark # ""
             THEN g1
             ELSE LET g2 == [g1 EXCEPT !.board.cells[<<row, col>>].mine = FALSE,
                                       !.board.minePositions = @ \ {PositionKey(row, col)}]
                      r == revealCell(g2.board, row, col)
                      g3 == [g2 EXCEPT !.board = r.board]
                      g4 == IF r.result
                            THEN revealAdjacentCells(g3, row, col)
                            ELSE g3
                  IN  checkWin(g4)

\* handleBoardClick without the gameOver test
handleBoardClickAfterEnd(g, row, col, mines) ==
    LET g1 == IF g.state.firstClick
              THEN [g EXCEPT !.board = placeMines(@, mines),
                             !.state.firstClick = FALSE,
                             !.timer = TimerStart(@, g.page.now)]
              ELSE g
        cell == g1.board.cells[<<row, col>>]
    IN  IF cell.mark # ""
        THEN g1
        ELSE IF cell.mine
             THEN endGame(g1, FALSE)
             ELSE LET r == revealCell(g1.board, row, col)
                      g2 == [g1 EXCEPT !.board = r.board]
                      g3 == IF r.result
                            THEN revealAdjacentCells(g2, row, col)
                            ELSE g2
                  IN  checkWin(g3)

\* handleBoardClick without the dataset.mine test: a mine is revealed like
\* any other cell
handleBoardClickRevealsMine(g, row, col, mines) ==
    IF g.state.gameOver
    THEN g
    ELSE LET g1 == IF g.state.firstClick
                   THEN [g EXCEPT !.board = placeMines(@, mines),
                                  !.state.firstClick = FALSE,
                                  !.timer = TimerStart(@, g.page.now)]
                   ELSE g
             cell == g1.board.cells[<<row, col>>]
         IN  IF cell.mark # ""
             THEN g1
             ELSE LET r == revealCell(g1.board, row, col)
                      g2 == [g1 EXCEPT !.board = r.board]
                      g3 == IF r.result
                            THEN revealAdjacentCells(g2, row, col)
                            ELSE g2
                  IN  checkWin(g3)

\* Minesweeper.handleBoardClick on the cell (row, col); mines is what
\* placeMines draws if this is the first click.
handleBoardClick(g, row, col, mines) ==
    IF g.state.gameOver
    THEN g
    ELSE LET g1 == IF g.state.firstClick
                   THEN [g EXCEPT !.board = placeMines(@, mines),
                                  !.state.firstClick = FALSE,
                                  !.timer = TimerStart(@, g.page.now)]
                   ELSE g
             cell == g1.board.cells[<<row, col>>]
         IN  IF cell.mark # ""
             THEN g1
             ELSE IF cell.mine
                  THEN endGame(g1, FALSE)
                  ELSE LET r == revealCell(g1.board, row, col)
                           g2 == [g1 EXCEPT !.board = r.board]
                           g3 == IF r.result
                                 THEN revealAdjacentCells(g2, row, col)
                                 ELSE g2
                       IN  checkWin(g3)

\* handleBoardRightClick without the gameOver test
handleBoardRightClickAlways(g, row, col) ==
    LET pos == <<row, col>>
        cell == g.board.cells[pos]
    IN  IF cell.revealed
        THEN g
        ELSE LET marked ==
                   IF cell.mark = ""
                   THEN [cell EXCEPT !.mark = "flag", !.text = FlagText]
                   ELSE IF cell.mark = "flag"
                        THEN [cell EXCEPT !.mark = "question", !.text = QuestionText]
                        ELSE [cell EXCEPT !.mark = "", !.text = ""]
             IN  checkWin([g EXCEPT !.board.cells[pos] = marked])

\* handleBoardRightClick leaving the "?" when it deletes the question mark
handleBoardRightClickKeepsText(g, row, col) ==
    LET pos == <<row, col>>
        cell == g.board.cells[pos]
    IN  IF g.state.gameOver \/ cell.revealed
        THEN g
        ELSE LET marked ==
                   IF cell.mark = ""
                   THEN [cell EXCEPT !.mark = "flag", !.text = FlagText]
                   ELSE IF cell.mark = "flag"
                        THEN [cell EXCEPT !.mark = "question", !.text = QuestionText]
                        ELSE [cell EXCEPT !.mark = ""]
             IN  checkWin([g EXCEPT !.board.cells[pos] = marked])

\* Minesweeper.handleBoardRightClick
handleBoardRightClick(g, row, col) ==
    LET pos == <<row, col>>
        cell == g.board.cells[pos]
    IN  IF g.state.gameOver \/ cell.revealed
        THEN g
        ELSE LET marked ==
                   IF cell.mark = ""
                   THEN [cell EXCEPT !.mark = "flag", !.text = FlagText]
                   ELSE IF cell.mark = "flag"
                        THEN [cell EXCEPT !.mark = "question", !.text = QuestionText]
                        ELSE [cell EXCEPT !.mark = "", !.text = ""]
             IN  checkWin([g EXCEPT !.board.cells[pos] = marked])

\* Minesweeper.isRevealedNumber
isRevealedNumber(cell) ==
    cell.revealed /\ cell.text # "" /\ cell.text \notin {FlagText, QuestionText}

\* Minesweeper.handleDualButtonPress; highlightAdjacentCells only adds the
\* "highlight" class.
handleDualButtonPress(g, row, col) ==
    LET cell == g.board.cells[<<row, col>>]
    IN  IF ~isRevealedNumber(cell)
        THEN g
        ELSE LET adj == getAdjacentCells(g.board, row, col)
                 flagCount == Len(SelectSeq(adj.cells,
                                            LAMBDA p : adj.board.cells[p].mark = "flag"))
                 g1 == [g EXCEPT !.board = adj.board]
             IN  IF flagCount = ParseInt(cell.text)
                 THEN revealAdjacentCells(g1, row, col)
                 ELSE g1

\* Minesweeper.handleBoardMouseDown
handleBoardMouseDown(g, row, col, button) ==
    IF g.state.gameOver
    THEN g
    ELSE LET g1 == [g EXCEPT !.state.leftMouseDown = IF button = 0 THEN TRUE ELSE @,
                             !.state.rightMouseDown = IF button = 2 THEN TRUE ELSE @]
         IN  IF g1.state.leftMouseDown /\ g1.state.rightMouseDown
             THEN handleDualButtonPress(g1, row, col)
             ELSE g1

\* Minesweeper.handleBoardMouseUp; removing "highlight" is not modelled, the
\* call of getAdjacentCells is.
handleBoardMouseUp(g, row, col, button) ==
    LET g1 == [g EXCEPT !.state.leftMouseDown = IF button = 0 THEN FALSE ELSE @,
                        !.state.rightMouseDown = IF button = 2 THEN FALSE ELSE @]
    IN  IF isRevealedNumber(g1.board.cells[<<row, col>>])
        THEN [g1 EXCEPT !.board = getAdjacentCells(@, row, col).board]
        ELSE g1

\* resetGame without this.state.firstClick = true
resetGameKeepsFirstClick(g) ==
    [g EXCEPT !.timer = TimerReset(@),
              !.state.gameOver = FALSE,
              !.state.gameWon = FALSE,
              !.state.revealedCount = 0,
              !.page.bodyClass = "",
              !.page.message.visible = FALSE,
              !.board = reset(@)]

\* Minesweeper.resetGame, but for its last line (cleanupGameEvents)
resetGame(g) ==
    [g EXCEPT !.timer = TimerReset(@),
              !.state.gameOver = FALSE,
              !.state.firstClick = TRUE,
              !.state.gameWon = FALSE,
              !.state.revealedCount = 0,
              !.page.bodyClass = "",
              !.page.message.visible = FALSE,
              !.board = reset(@)]

\* initBoard keeping the cells of the board it finds
initBoardKeepsCells(g) == g

\* Minesweeper.initBoard
initBoard(g) ==
    [g EXCEPT !.board = initializeBoard(g.state.boardWidth, g.state.boardHeight)]

\* onVisibilityChange starting the timer whenever the game is not over
onVisibilityChangeAlwaysResumes(g) ==
    IF g.page.hidden /\ ~g.state.gameOver
    THEN [g EXCEPT !.timer = TimerStop(@)]
    ELSE IF ~g.page.hidden /\ ~g.state.gameOver
         THEN [g EXCEPT !.timer = TimerStart(@, g.page.now)]
         ELSE g

\* The visibilitychange listener (document.hidden is g.page.hidden)
onVisibilityChange(g) ==
    IF g.page.hidden /\ ~g.state.gameOver
    THEN [g EXCEPT !.timer = TimerStop(@)]
    ELSE IF ~g.page.hidden /\ ~g.state.gameOver /\ ~g.state.firstClick
         THEN [g EXCEPT !.timer = TimerStart(@, g.page.now)]
         ELSE g

\* onBeforeUnload marking the game over once it is saved
onBeforeUnloadEndsGame(g) ==
    IF ~g.state.gameOver
    THEN [g EXCEPT !.page = saveGameState(@, <<g.state>>),
                   !.state.gameOver = TRUE]
    ELSE g

\* The beforeunload listener: saveGameState is called with the state alone
onBeforeUnload(g) ==
    IF ~g.state.gameOver
    THEN [g EXCEPT !.page = saveGameState(@, <<g.state>>)]
    ELSE g

(***************************************************************************)
(* The settings form and startNewGame.  An input's value is text; parseInt *)
(* of text that is no number is NaN, and Math.min, Math.max, * and - give  *)
(* NaN when an operand is NaN.  Negative numbers are not entered.          *)
(***************************************************************************)
DIFFICULTY_SETTINGS ==
    [easy |-> [width |-> 9, height |-> 9, mines |-> 10],
     medium |-> [width |-> 16, height |-> 16, mines |-> 40],
     hard |-> [width |-> 30, height |-> 16, mines |-> 99]]

MAX_BOARD_SIZE == 30

MathMin(a, b) == IF a = NaN \/ b = NaN THEN NaN ELSE IF a <= b THEN a ELSE b
MathMax(a, b) == IF a = NaN \/ b = NaN THEN NaN ELSE IF a >= b THEN a ELSE b
Times(a, b) == IF a = NaN \/ b = NaN THEN NaN ELSE a * b
Minus(a, b) == IF a = NaN \/ b = NaN THEN NaN ELSE a - b

\* utils.js
validateBoardSize(size, maxSize) == MathMax(5, MathMin(size, maxSize))
validateMineCount(count, maxCount) == MathMax(1, MathMin(count, Minus(maxCount, 1)))

\* The numbers typed into the custom inputs
EnteredSizes == {4, 5, 31}
EnteredMines == {0, 24, 154}

\* The numbers an input's text can stand for
FieldNumbers ==
    LET all == EnteredSizes \cup EnteredMines \cup {MAX_BOARD_SIZE}
    IN  0 .. (CHOOSE m \in all : \A n \in all : n <= m)

\* parseInt(element.value)
ParseField(text) ==
    IF \E n \in FieldNumbers : ToString(n) = text
    THEN CHOOSE n \in FieldNumbers : ToString(n) = text
    ELSE NaN

\* element.value = number
FieldText(n) == IF n = NaN THEN "NaN" ELSE ToString(n)

\* parseInt(...) || fallback: NaN and 0 are falsy
OrElse(n, fallback) == IF n = NaN \/ n = 0 THEN fallback ELSE n

\* Minesweeper.getDifficultySettings
getDifficultySettings(f) ==
    IF f.difficulty = "custom"
    THEN [width |-> OrElse(ParseField(f.customWidth), 9),
          height |-> OrElse(ParseField(f.customHeight), 9),
          mines |-> OrElse(ParseField(f.customMines), 10)]
    ELSE DIFFICULTY_SETTINGS[f.difficulty]

\* Minesweeper.startNewGame, but for the cleanupGameEvents of its resetGame
startNewGame(g, f) ==
    LET settings == getDifficultySettings(f)
        g1 == [g EXCEPT !.state =
                  MinesweeperState(
                      validateBoardSize(settings.width, MAX_BOARD_SIZE),
                      validateBoardSize(settings.height, MAX_BOARD_SIZE),
                      validateMineCount(settings.mines,
                                        settings.width * settings.height))]
    IN  initBoard(resetGame(g1))

\* Minesweeper.validateCustomInputs; the max attribute it sets on the mines
\* input does not change the input's value
validateCustomInputs(f) ==
    IF f.difficulty # "custom"
    THEN f
    ELSE LET width == ParseField(f.customWidth)
             height == ParseField(f.customHeight)
             validWidth == validateBoardSize(width, MAX_BOARD_SIZE)
             validHeight == validateBoardSize(height, MAX_BOARD_SIZE)
             maxMines == Minus(Times(validWidth, validHeight), 1)
             currentMines == ParseField(f.customMines)
             validMines == validateMineCount(currentMines, maxMines)
         IN  [f EXCEPT !.customWidth = FieldText(validWidth),
                       !.customHeight = FieldText(validHeight),
                       !.customMines = FieldText(validMines)]

\* The form as the page loads: the constructor's default difficulty, nothing
\* typed, no validation pending
SettingsForm ==
    [difficulty |-> "easy", customWidth |-> "", customHeight |-> "",
     customMines |-> "", pending |-> FALSE]

(***************************************************************************)
(* The state machine.                                                      *)
(***************************************************************************)
Game == [state |-> state, board |-> board, timer |-> timer, page |-> page, form |-> form]

Cells == DOMAIN board.cells

\* event.button: 0 is the left button and 2 the right one; the handlers do
\* nothing for any other
Buttons == {0, 2}

\* The boards the constructor builds: every valid configuration within the
\* bound.
Configs ==
    {cfg \in (1 .. MaxCells) \X (1 .. MaxCells) \X (1 .. MaxCells) :
        /\ cfg[1] * cfg[2] <= MaxCells
        /\ cfg[2] <= MaxHeight
        /\ cfg[3] <= cfg[1] * cfg[2] - 1}

\* The constructor: state, timer, initEventListeners, initBoard
Init ==
    \E cfg \in Configs :
        /\ state = MinesweeperState(cfg[1], cfg[2], cfg[3])
        /\ board = initializeBoard(cfg[1], cfg[2])
        /\ timer = GameTimer
        /\ boardListeners = TRUE
        /\ lastOp = [op |-> "constructor", phase |-> "NotStarted"]
        /\ form = SettingsForm
        /\ page = LoadedPage

Becomes(g) ==
    /\ state' = g.state
    /\ board' = g.board
    /\ timer' = g.timer
    /\ page' = g.page

\* NotStarted, Playing, Won or Lost, as the controller's flags encode it
Phase ==
    IF state.gameOver
    THEN IF state.gameWon THEN "Won" ELSE "Lost"
    ELSE IF state.firstClick THEN "NotStarted" ELSE "Playing"

Ran(op) == lastOp' = [op |-> op, phase |-> Phase]

\* A click event on the cell p: the delegated listener calls handleBoardClick
ClickOn(p) ==
    /\ boardListeners
    /\ UNCHANGED <<boardListeners, form>>
    /\ Ran("click")
    /\ \E mines \in PlaceMinesOutcomes(board, state.mineCount, p[1], p[2]) :
          Becomes(handleBoardClick(Game, p[1], p[2], mines))

Click == \E p \in Cells : ClickOn(p)

\* A contextmenu event on the cell p
RightClickOn(p) ==
    /\ boardListeners
    /\ UNCHANGED <<boardListeners, form>>
    /\ Ran("rightclick")
    /\ Becomes(handleBoardRightClick(Game, p[1], p[2]))

RightClick == \E p \in Cells : RightClickOn(p)

\* The mousedown event reaches handleDualButtonPress
Chord(p, button) ==
    /\ ~state.gameOver
    /\ state.leftMouseDown \/ button = 0
    /\ state.rightMouseDown \/ button = 2

\* A mousedown event on the cell p
MouseDownOn(p, button) ==
    /\ boardListeners
    /\ UNCHANGED <<boardListeners, form>>
    /\ IF Chord(p, button) THEN Ran("chord") ELSE UNCHANGED lastOp
    /\ Becomes(handleBoardMouseDown(Game, p[1], p[2], button))

MouseDown == \E p \in Cells, button \in Buttons : MouseDownOn(p, button)

\* A mouseup event on the cell p
MouseUpOn(p, button) ==
    /\ boardListeners
    /\ UNCHANGED <<boardListeners, lastOp, form>>
    /\ Becomes(handleBoardMouseUp(Game, p[1], p[2], button))

MouseUp == \E p \in Cells, button \in Buttons : MouseUpOn(p, button)

\* The restart button: resetGame (which ends with cleanupGameEvents, removing
\* the board's delegated listeners), then initBoard
Restart ==
    /\ Becomes(initBoard(resetGame(Game)))
    /\ boardListeners' = FALSE
    /\ Ran("restart")
    /\ UNCHANGED form

\* The debounced resize handler
Resize ==
    /\ IF ~state.gameOver
       THEN /\ Becomes(initBoard(resetGame(Game)))
            /\ boardListeners' = FALSE
       ELSE UNCHANGED <<state, board, timer, boardListeners, page>>
    /\ Ran("resize")
    /\ UNCHANGED form

\* The new-game button: startNewGame, whose resetGame ends with
\* cleanupGameEvents
StartNewGame ==
    /\ Becomes(startNewGame(Game, form))
    /\ boardListeners' = FALSE
    /\ Ran("newgame")
    /\ UNCHANGED form

Next ==
    \/ Click
    \/ RightClick
    \/ MouseDown
    \/ MouseUp
    \/ Restart
    \/ Resize
    \/ StartNewGame

Spec == Init /\ [][Next]_vars

(***************************************************************************)
(* The settings form alone: the difficulty select, typing into the custom  *)
(* inputs (shown while the difficulty is custom), the debounced            *)
(* validateCustomInputs, and the new-game button.                          *)
(***************************************************************************)
Difficulties == {"easy", "medium", "hard", "custom"}

SelectDifficulty ==
    /\ \E d \in Difficulties : form' = [form EXCEPT !.difficulty = d]
    /\ UNCHANGED <<state, board, timer, boardListeners, lastOp, page>>

\* An input event on a custom input arms its debounced validateCustomInputs
EnterCustom ==
    /\ form.difficulty = "custom"
    /\ \/ \E n \in EnteredSizes :
             form' = [form EXCEPT !.customWidth = ToString(n), !.pending = TRUE]
       \/ \E n \in EnteredSizes :
             form' = [form EXCEPT !.customHeight = ToString(n), !.pending = TRUE]
       \/ \E n \in EnteredMines :
             form' = [form EXCEPT !.customMines = ToString(n), !.pending = TRUE]
    /\ UNCHANGED <<state, board, timer, boardListeners, lastOp, page>>

\* The debounce delay has passed
ValidateCustomInputs ==
    /\ form.pending
    /\ form' = [validateCustomInputs(form) EXCEPT !.pending = FALSE]
    /\ UNCHANGED <<state, board, timer, boardListeners, lastOp, page>>

FormNext ==
    \/ SelectDifficulty
    \/ EnterCustom
    \/ ValidateCustomInputs
    \/ StartNewGame

FormSpec == Init /\ [][FormNext]_vars


(***************************************************************************)
(* The first click, draw by draw.  handleBoardClick has called placeMines  *)
(* and lastOp holds that call in progress, with the cell it excludes; each *)
(* step is one iteration of the while loop, with the row and the column    *)
(* Math.random gave, until the loop leaves and handleBoardClick goes on.   *)
(***************************************************************************)
PlaceInit ==
    \E cfg \in Configs :
        \E p \in Positions(cfg[1], cfg[2]) :
            /\ state = MinesweeperState(cfg[1], cfg[2], cfg[3])
            /\ board = initializeBoard(cfg[1], cfg[2])
            /\ timer = GameTimer
            /\ boardListeners = TRUE
            /\ form = SettingsForm
            /\ page = LoadedPage
            /\ lastOp = [op |-> "placeMines", phase |-> "NotStarted",
                         excludeRow |-> p[1], excludeCol |-> p[2]]

\* The loop's body with the test (row !== excludeRow && col !== excludeCol)
DrawAtOtherRowAndCol(row, col) ==
    /\ lastOp.op = "placeMines"
    /\ Cardinality(board.minePositions) < state.mineCount
    /\ isValidCell(board, row, col)
    /\ LET position == PositionKey(row, col)
       IN  IF position \notin board.minePositions
              /\ (row # lastOp.excludeRow /\ col # lastOp.excludeCol)
           THEN board' = [board EXCEPT !.minePositions = @ \cup {position},
                                       !.cells[<<row, col>>].mine = TRUE]
           ELSE UNCHANGED board
    /\ UNCHANGED <<state, timer, boardListeners, lastOp, form, page>>

\* One iteration of placeMines' loop, the draw being (row, col)
DrawAt(row, col) ==
    /\ lastOp.op = "placeMines"
    /\ Cardinality(board.minePositions) < state.mineCount
    /\ isValidCell(board, row, col)
    /\ LET position == PositionKey(row, col)
       IN  IF position \notin board.minePositions
              /\ (row # lastOp.excludeRow \/ col # lastOp.excludeCol)
           THEN board' = [board EXCEPT !.minePositions = @ \cup {position},
                                       !.cells[<<row, col>>].mine = TRUE]
           ELSE UNCHANGED board
    /\ UNCHANGED <<state, timer, boardListeners, lastOp, form, page>>

Draw == \E p \in Cells : DrawAt(p[1], p[2])

\* placeMines' loop has left
LoopLeft ==
    /\ lastOp.op = "placeMines"
    /\ Cardinality(board.minePositions) >= state.mineCount

\* The loop's condition fails: placeMines returns and handleBoardClick runs
\* to its end
PlaceMinesReturns ==
    /\ LoopLeft
    /\ Becomes(handleBoardClick(Game, lastOp.excludeRow, lastOp.excludeCol,
                                {SplitPosition(k) : k \in board.minePositions}))
    /\ lastOp' = [op |-> "click", phase |-> "NotStarted"]
    /\ UNCHANGED <<boardListeners, form>>

PlaceNext ==
    \/ Draw
    \/ PlaceMinesReturns

\* Fair sampling: a coordinate whose draw would add a mine is drawn in the
\* end.  The code after the loop runs: WF_vars(PlaceMinesReturns), with
\* LoopLeft for ENABLED <<PlaceMinesReturns>>_vars
FairDraws ==
    /\ \A row \in 0 .. MaxHeight - 1, col \in 0 .. MaxCells - 1 :
          WF_vars(DrawAt(row, col))
    /\ ([]<>~LoopLeft \/ []<><<PlaceMinesReturns>>_vars)

PlaceSpec == PlaceInit /\ [][PlaceNext]_vars /\ FairDraws

(***************************************************************************)
(* The game with the page's own events: the clock advances, the timer's    *)
(* animation frame runs, the page is hidden and shown, the page is about   *)
(* to unload, the end message's frame and timeout fire, and localStorage   *)
(* starts or stops refusing writes.                                        *)
(***************************************************************************)
PageInit ==
    /\ Init
    /\ state.boardWidth * state.boardHeight <= PageCells

\* Date.now() advances by a second
Tick ==
    /\ page.now < MaxTime
    /\ page' = [page EXCEPT !.now = @ + 1]
    /\ UNCHANGED <<state, board, timer, boardListeners, lastOp, form>>

\* The timer's requestAnimationFrame callback
Frame ==
    /\ timer.running
    /\ timer' = updateTimer(timer, page.now)
    /\ UNCHANGED <<state, board, boardListeners, lastOp, form, page>>

\* visibilitychange: document.hidden has flipped
VisibilityChange ==
    /\ Becomes(onVisibilityChange(
           [Game EXCEPT !.page.hidden = ~@,
                        !.page.pausedAt = IF ~page.hidden /\ timer.running
                                          THEN getCurrentTime(timer, page.now)
                                          ELSE @]))
    /\ UNCHANGED <<boardListeners, lastOp, form>>

\* beforeunload, after which the page stays (the navigation is cancelled)
BeforeUnload ==
    /\ Becomes(onBeforeUnload(Game))
    /\ UNCHANGED <<boardListeners, lastOp, form>>

\* The requestAnimationFrame callback of showMessage
ShowFrame ==
    /\ page.showFrames > 0
    /\ page' = [page EXCEPT !.showFrames = @ - 1, !.message.visible = TRUE]
    /\ UNCHANGED <<state, board, timer, boardListeners, lastOp, form>>

\* The setTimeout callback of endGame
HideMessage ==
    /\ page.hideTimeouts > 0
    /\ page' = [hideMessage(page) EXCEPT !.hideTimeouts = @ - 1]
    /\ UNCHANGED <<state, board, timer, boardListeners, lastOp, form>>

\* localStorage.setItem starts or stops throwing
StorageChanges ==
    /\ page' = [page EXCEPT !.storageFull = ~@]
    /\ UNCHANGED <<state, board, timer, boardListeners, lastOp, form>>

PageNext ==
    \/ Next
    \/ Tick
    \/ Frame
    \/ VisibilityChange
    \/ BeforeUnload
    \/ ShowFrame
    \/ HideMessage
    \/ StorageChanges

PageSpec == PageInit /\ [][PageNext]_vars

(***************************************************************************)
(* The game with the mouse buttons' physical state.  A button goes down    *)
(* only when it is up and up only when it is down.  The board's delegated  *)
(* listeners call the handlers only for events whose target is a cell of   *)
(* the board (event.target.closest(".cell")); a press or release anywhere  *)
(* else, or once the listeners are removed, reaches no handler.  The       *)
(* delegated mouseleave listener never finds a cell: mouseleave does not   *)
(* bubble, so the board hears only its own, whose target is the board.     *)
(***************************************************************************)
MouseInit ==
    /\ Init
    /\ state.boardWidth * state.boardHeight <= MouseCells

\* The button goes down on the cell p
PressOn(p, button) ==
    /\ ~page.held[button]
    /\ boardListeners
    /\ UNCHANGED <<boardListeners, form>>
    /\ IF Chord(p, button) THEN Ran("chord") ELSE UNCHANGED lastOp
    /\ Becomes(handleBoardMouseDown([Game EXCEPT !.page.held[button] = TRUE],
                                    p[1], p[2], button))

Press == \E p \in Cells, button \in Buttons : PressOn(p, button)

\* The button goes up on the cell p
ReleaseOn(p, button) ==
    /\ page.held[button]
    /\ boardListeners
    /\ UNCHANGED <<boardListeners, lastOp, form>>
    /\ Becomes(handleBoardMouseUp([Game EXCEPT !.page.held[button] = FALSE],
                                  p[1], p[2], button))

Release == \E p \in Cells, button \in Buttons : ReleaseOn(p, button)

\* The button goes down or up where no handler is called
Elsewhere ==
    /\ \E button \in Buttons : page' = [page EXCEPT !.held[button] = ~@]
    /\ UNCHANGED <<state, board, timer, boardListeners, lastOp, form>>

MouseNext ==
    \/ Click
    \/ RightClick
    \/ Press
    \/ Release
    \/ Elsewhere
    \/ Restart
    \/ Resize
    \/ StartNewGame

MouseSpec == MouseInit /\ [][MouseNext]_vars

(***************************************************************************)
(* What the claims speak of.  These read the cells directly and compute    *)
(* neighbourhoods from coordinates, independently of the code's operators. *)
(***************************************************************************)
RevealedCells(b) == {p \in DOMAIN b.cells : b.cells[p].revealed}
MineCells(b) == {p \in DOMAIN b.cells : b.cells[p].mine}
MarkedCells(b) == {p \in DOMAIN b.cells : b.cells[p].mark # ""}
SafeCells(b) == DOMAIN b.cells \ MineCells(b)
ShownAsMine(b) == {p \in DOMAIN b.cells : b.cells[p].mineClass = "mine"}
MinePositionSet(b) == {p \in DOMAIN b.cells : PositionKey(p[1], p[2]) \in b.minePositions}

Abs(n) == IF n < 0 THEN -n ELSE n

\* The up-to-8 cells around p
Neighbours(b, p) ==
    {q \in DOMAIN b.cells : q # p /\ Abs(q[1] - p[1]) <= 1 /\ Abs(q[2] - p[2]) <= 1}

AdjacentMineCount(b, p) == Cardinality(Neighbours(b, p) \cap MineCells(b))

\* What each cell has of mine, revealed and mark
CellAttributes(b) ==
    [p \in DOMAIN b.cells |->
        <<b.cells[p].mine, b.cells[p].revealed, b.cells[p].mark>>]

\* The game-state fields and cell attributes a terminal state freezes
Frozen ==
    <<board.minePositions, CellAttributes(board), state.revealedCount,
      state.gameOver, state.gameWon>>

\* The left-click on p reveals p: p is unrevealed, unmarked and, once the
\* mines are where the click leaves them, no mine
ClickReveals(p) ==
    /\ ~state.gameOver
    /\ ~board.cells[p].revealed
    /\ board.cells[p].mark = ""
    /\ ~board'.cells[p].mine
    /\ ClickOn(p)

\* The mousedown on p is a chord on a revealed number whose flagged
\* neighbours are as many as its number
ChordReveals(p, button) ==
    /\ Chord(p, button)
    /\ isRevealedNumber(board.cells[p])
    /\ Cardinality({q \in Neighbours(board, p) : board.cells[q].mark = "flag"})
          = AdjacentMineCount(board, p)
    /\ MouseDownOn(p, button)

(***************************************************************************)
(* C1.  After placeMines(mineCount, r, c), run by the first click on       *)
(* (r, c), exactly mineCount distinct cells are mines: minePositions has   *)
(* mineCount elements and names exactly the cells with dataset.mine, and   *)
(* (r, c) is not a mine.                                                   *)
(***************************************************************************)
C1_PlaceMinesExact ==
    [][\A p \in Cells :
          (state.firstClick /\ ~state.gameOver /\ ClickOn(p))
          => /\ Cardinality(board'.minePositions) = state.mineCount
             /\ Cardinality(MineCells(board')) = state.mineCount
             /\ MinePositionSet(board') = MineCells(board')
             /\ ~board'.cells[p].mine]_vars

C1_Witness ==
    /\ lastOp = [op |-> "click", phase |-> "NotStarted"]
    /\ ~state.firstClick
    /\ Cardinality(MineCells(board)) = state.mineCount
    /\ state.mineCount >= 2

(***************************************************************************)
(* C2.  In every reachable state state.revealedCount is the number of      *)
(* cells of the board with the "revealed" class.                           *)
(***************************************************************************)
C2_RevealedCountMatches ==
    state.revealedCount = Cardinality(RevealedCells(board))

(***************************************************************************)
(* C3.  Once the mines are placed and every cell that is no mine is        *)
(* revealed, the game is Won: gameOver and gameWon.                        *)
(***************************************************************************)
C3_WonWhenAllSafeRevealed ==
    (~state.firstClick /\ SafeCells(board) \subseteq RevealedCells(board))
    => (state.gameOver /\ state.gameWon)

(***************************************************************************)
(* C4.  The game is Won only with revealedCount = boardWidth * boardHeight *)
(* - mineCount and every cell that is no mine revealed, and a right-click  *)
(* that runs before the game is Won does not leave it Won.                 *)
(***************************************************************************)
C4_NoEarlyWin ==
    /\ (\/ state.revealedCount
             # state.boardWidth * state.boardHeight - state.mineCount
        \/ ~(SafeCells(board) \subseteq RevealedCells(board)))
       => ~state.gameWon
    /\ (lastOp.op = "rightclick" /\ lastOp.phase # "Won") => ~state.gameWon

C4_Witness ==
    /\ lastOp = [op |-> "rightclick", phase |-> "Playing"]
    /\ MarkedCells(board) # {}
    /\ RevealedCells(board) # {}
    /\ ~(SafeCells(board) \subseteq RevealedCells(board))
    /\ ~state.gameWon

(***************************************************************************)
(* C5.  The game is not Lost while no cell has been revealed: the first    *)
(* cell revealed is never a mine.                                          *)
(***************************************************************************)
C5_NoLossBeforeFirstReveal ==
    (state.gameOver /\ ~state.gameWon) => RevealedCells(board) # {}

(***************************************************************************)
(* C6.  firstClick is false (the mines are placed, the timer was started)  *)
(* exactly when a cell has been revealed or the game is over.              *)
(***************************************************************************)
C6_PlacedIffRevealed ==
    ~state.firstClick <=> (RevealedCells(board) # {} \/ state.gameOver)

(***************************************************************************)
(* C7.  A left-click on a marked cell, the game not being over, changes    *)
(* nothing of the state, the board or the timer.                           *)
(***************************************************************************)
C7_MarkedClickInert ==
    [][\A p \in Cells :
          (~state.gameOver /\ board.cells[p].mark # "" /\ ClickOn(p))
          => UNCHANGED <<state, board, timer>>]_vars

(***************************************************************************)
(* C8.  With the game over, every left-click, right-click and button press *)
(* (chord or not) leaves the mine set, every cell's mine, revealed and     *)
(* mark, revealedCount, gameOver and gameWon as they are.                  *)
(***************************************************************************)
C8_TerminalFrozen ==
    [][\A p \in Cells :
          (/\ state.gameOver
           /\ \/ ClickOn(p)
              \/ RightClickOn(p)
              \/ \E button \in Buttons : MouseDownOn(p, button))
          => UNCHANGED Frozen]_vars

C8_Witness ==
    /\ lastOp = [op |-> "rightclick", phase |-> "Lost"]
    /\ state.gameOver
    /\ MarkedCells(board) = {}

(***************************************************************************)
(* C9.  In Playing, a left-click on an unmarked mine, and a chord reveal   *)
(* with an unmarked unrevealed mine among the neighbours, end the game in  *)
(* that step: gameOver, not gameWon, the timer stopped, and the "mine"     *)
(* class on exactly the cells of minePositions.                            *)
(***************************************************************************)
C9_MineHitLoses ==
    [][\A p \in Cells :
          (/\ ~state.gameOver
           /\ ~state.firstClick
           /\ \/ /\ board.cells[p].mine
                 /\ board.cells[p].mark = ""
                 /\ ClickOn(p)
              \/ /\ \E q \in Neighbours(board, p) :
                       /\ board.cells[q].mine
                       /\ board.cells[q].mark = ""
                       /\ ~board.cells[q].revealed
                 /\ \E button \in Buttons : ChordReveals(p, button))
          => /\ state'.gameOver
             /\ ~state'.gameWon
             /\ ~timer'.running
             /\ ShownAsMine(board') = MinePositionSet(board')
             /\ MinePositionSet(board') = MineCells(board)
             /\ \A q \in MineCells(board) : board'.cells[q].text = BombText]_vars

C9_Witness ==
    /\ lastOp = [op |-> "chord", phase |-> "Playing"]
    /\ state.gameOver
    /\ ~state.gameWon
    /\ ShownAsMine(board) # {}

(***************************************************************************)
(* C10.  The flood of a left-click.  From the clicked cell p, a zero cell  *)
(* is a cell with no mine around it; the region is what steps between      *)
(* neighbours reach from p through zero cells that may be passed.          *)
(***************************************************************************)
RECURSIVE Reach(_, _, _)
Reach(b, region, pass) ==
    LET more == {q \in pass \ region : \E x \in region : q \in Neighbours(b, x)}
    IN  IF more = {} THEN region ELSE Reach(b, region \cup more, pass)

\* The cells around the region that are unmarked and no mine
Border(b, mines, marks, region) ==
    {q \in DOMAIN b.cells \ region :
        /\ \E x \in region : q \in Neighbours(b, x)
        /\ marks[q] = ""
        /\ q \notin mines}

\* The flood reveals the region reached through the cells of pass, and its
\* border
FloodReveals(p, pass) ==
    LET region == Reach(board', {p}, pass)
        marks == [q \in Cells |-> board.cells[q].mark]
    IN  RevealedCells(board')
          = RevealedCells(board) \cup region \cup Border(board', MineCells(board'), marks, region)

\* The zero cells without a mark, counted with the mines as the click leaves
\* them
UnmarkedZeroCells ==
    {q \in Cells : /\ AdjacentMineCount(board', q) = 0
                   /\ ~board'.cells[q].mine
                   /\ board.cells[q].mark = ""}

\* C10 as claimed: a left-click revealing a zero cell reveals exactly the
\* cells reached from it through unmarked zero cells, and the unmarked
\* cells, no mines, bordering them.
C10_FloodThroughZeroCells ==
    [][\A p \in Cells :
          (ClickReveals(p) /\ AdjacentMineCount(board', p) = 0)
          => FloodReveals(p, UnmarkedZeroCells)]_vars

\* C10 as amended: the region passes only through unmarked zero cells that
\* were not revealed before the click; a zero cell revealed earlier is not
\* expanded again.  No flagged cell and no mine is revealed, and the marks
\* stay.
C10_FloodThroughUnrevealedZeroCells ==
    [][\A p \in Cells :
          (ClickReveals(p) /\ AdjacentMineCount(board', p) = 0)
          => /\ FloodReveals(p, UnmarkedZeroCells \ RevealedCells(board))
             /\ RevealedCells(board') \cap MineCells(board') = {}
             /\ RevealedCells(board') \cap MarkedCells(board) = {}
             /\ \A q \in Cells : board'.cells[q].mark = board.cells[q].mark]_vars

C10_Witness ==
    /\ lastOp.op = "click"
    /\ MarkedCells(board) # {}
    /\ \E q1, q2 \in RevealedCells(board) :
          /\ q1 # q2
          /\ AdjacentMineCount(board, q1) = 0
          /\ AdjacentMineCount(board, q2) = 0

(***************************************************************************)
(* C11.  The flood a left-click starts hits no mine: a left-click that     *)
(* reveals its cell does not end the game Lost and shows no mine.  A step  *)
(* that ends the game Lost is a left-click on an unmarked mine or a chord  *)
(* reveal.                                                                 *)
(***************************************************************************)
C11_FloodHitsNoMine ==
    [][/\ \A p \in Cells :
             ClickReveals(p)
             => /\ ~(state'.gameOver /\ ~state'.gameWon)
                /\ ShownAsMine(board') = {}
                /\ RevealedCells(board') \cap MineCells(board') = {}
       /\ (~state.gameOver /\ state'.gameOver /\ ~state'.gameWon)
          => \/ \E p \in Cells :
                   /\ board.cells[p].mine
                   /\ board.cells[p].mark = ""
                   /\ ClickOn(p)
             \/ \E p \in Cells, button \in Buttons : ChordReveals(p, button)]_vars

C11_Witness ==
    /\ lastOp = [op |-> "click", phase |-> "Playing"]
    /\ ~state.gameOver
    /\ MineCells(board) # {}
    /\ \E q \in RevealedCells(board) :
          /\ AdjacentMineCount(board, q) = 0
          /\ \E x \in Neighbours(board, q) \cap RevealedCells(board) :
                AdjacentMineCount(board, x) > 0

(***************************************************************************)
(* C12.  A chord on a revealed number with as many flagged neighbours as   *)
(* its number reveals every neighbour that is unflagged and unrevealed,    *)
(* the question-marked ones too, unless one of them is a mine, which ends  *)
(* the game Lost.  Any other chord changes no cell's mine, revealed or     *)
(* mark, nor the mine set, nor a field of the game state other than the    *)
(* two button flags the press itself sets.                                 *)
(***************************************************************************)
ChordTargets(p) ==
    {q \in Neighbours(board, p) :
        board.cells[q].mark # "flag" /\ ~board.cells[q].revealed}

\* p is a revealed number with as many flagged neighbours as its number
ChordMatches(p) ==
    /\ board.cells[p].revealed
    /\ AdjacentMineCount(board, p) > 0
    /\ Cardinality({q \in Neighbours(board, p) : board.cells[q].mark = "flag"})
          = AdjacentMineCount(board, p)

C12_ChordRevealsUnflagged ==
    [][\A p \in Cells, button \in Buttons :
          /\ ChordReveals(p, button)
             => IF ChordTargets(p) \cap MineCells(board) = {}
                THEN ChordTargets(p) \subseteq RevealedCells(board')
                ELSE state'.gameOver /\ ~state'.gameWon
          /\ (Chord(p, button) /\ ~ChordMatches(p) /\ MouseDownOn(p, button))
             => UNCHANGED <<board.minePositions, CellAttributes(board),
                            state.gameOver, state.gameWon, state.firstClick,
                            state.revealedCount, state.mineCount,
                            state.boardWidth, state.boardHeight>>]_vars

(***************************************************************************)
(* C13.  A right-click on an unrevealed cell, the game not over, moves its *)
(* mark from none to flag, from flag to question, from question to none,   *)
(* and changes nothing else.  Three right-clicks on an unmarked unrevealed *)
(* cell give back the state they started from, so that a left-click on the *)
(* cell does then what it does now.                                        *)
(***************************************************************************)
NextMark(mark) ==
    IF mark = "" THEN "flag" ELSE IF mark = "flag" THEN "question" ELSE ""

RightClickedThrice(p) ==
    handleBoardRightClick(
        handleBoardRightClick(
            handleBoardRightClick(Game, p[1], p[2]), p[1], p[2]), p[1], p[2])

C13_MarkCycle ==
    [][\A p \in Cells :
          (~state.gameOver /\ ~board.cells[p].revealed /\ RightClickOn(p))
          => /\ board'.cells[p].mark = NextMark(board.cells[p].mark)
             /\ board'.cells[p].mine = board.cells[p].mine
             /\ ~board'.cells[p].revealed
             /\ \A q \in Cells \ {p} : board'.cells[q] = board.cells[q]
             /\ board'.minePositions = board.minePositions
             /\ UNCHANGED <<state, timer>>
             /\ board.cells[p].mark = ""
                => /\ RightClickedThrice(p) = Game
                   /\ \A mines \in PlaceMinesOutcomes(board, state.mineCount, p[1], p[2]) :
                         handleBoardClick(RightClickedThrice(p), p[1], p[2], mines)
                           = handleBoardClick(Game, p[1], p[2], mines)]_vars

\* Nothing is revealed, so the right-click that ran last changed a mark, and
\* none is left: it took a question mark away
C13_Witness ==
    /\ lastOp = [op |-> "rightclick", phase |-> "NotStarted"]
    /\ RevealedCells(board) = {}
    /\ MarkedCells(board) = {}
    /\ \A q \in Cells : board.cells[q].text = ""

(***************************************************************************)
(* C14.  No cell is both marked (flag or question) and revealed.           *)
(***************************************************************************)
C14_MarkedNeverRevealed ==
    MarkedCells(board) \cap RevealedCells(board) = {}

\* A flood or a chord has passed by a question-marked cell that is no mine
C14_Witness ==
    /\ lastOp.op \in {"click", "chord"}
    /\ \E q \in Cells :
          /\ board.cells[q].mark = "question"
          /\ ~board.cells[q].mine
          /\ ~board.cells[q].revealed
          /\ \E x \in Neighbours(board, q) \cap RevealedCells(board) :
                AdjacentMineCount(board, x) = 0

(***************************************************************************)
(* C15.  After a reset (the restart button, startNewGame, the resize       *)
(* handler while the game is not over) the game is NotStarted: firstClick, *)
(* not gameOver, not gameWon, revealedCount 0, no mine position, and a     *)
(* board of boardWidth x boardHeight cells none of which is a mine,        *)
(* revealed or marked.                                                     *)
(***************************************************************************)
ResetStep ==
    \/ lastOp'.op = "restart" /\ Restart
    \/ lastOp'.op = "resize" /\ ~state.gameOver /\ Resize
    \/ lastOp'.op = "newgame" /\ StartNewGame

C15_ResetGivesNotStarted ==
    [][ResetStep
       => /\ state'.firstClick
          /\ ~state'.gameOver
          /\ ~state'.gameWon
          /\ state'.revealedCount = 0
          /\ board'.minePositions = {}
          /\ DOMAIN board'.cells = Positions(state'.boardWidth, state'.boardHeight)
          /\ MineCells(board') = {}
          /\ RevealedCells(board') = {}
          /\ MarkedCells(board') = {}
          /\ \A q \in DOMAIN board'.cells :
                board'.cells[q].text = "" /\ board'.cells[q].mineClass = ""]_vars

\* A lost game has been reset by the restart button
C15_Witness ==
    /\ lastOp = [op |-> "restart", phase |-> "Lost"]
    /\ state.firstClick
    /\ ~state.gameOver
    /\ board.minePositions = {}

(***************************************************************************)
(* C16.  The board's click, contextmenu, mousedown and mouseup listeners   *)
(* are registered in every reachable state, after any number of resets and *)
(* new games, so that the clicks on the new board are handled.             *)
(***************************************************************************)
C16_ListenersSurviveReset ==
    boardListeners

(***************************************************************************)
(* C17.  The state startNewGame produces has 5 <= boardWidth <=            *)
(* MAX_BOARD_SIZE, 5 <= boardHeight <= MAX_BOARD_SIZE and 1 <= mineCount   *)
(* <= boardWidth * boardHeight - 1.                                        *)
(***************************************************************************)
C17_NewGameWithinBounds ==
    lastOp.op = "newgame"
    => /\ state.boardWidth \in 5 .. MAX_BOARD_SIZE
       /\ state.boardHeight \in 5 .. MAX_BOARD_SIZE
       /\ state.mineCount \in 1 .. (state.boardWidth * state.boardHeight - 1)

(***************************************************************************)
(* C18.  validateCustomInputs, run on three numbers, leaves a width and a  *)
(* height in 5 .. MAX_BOARD_SIZE and a mine count in 1 .. width * height - *)
(* 1, and leaves numbers that were within these bounds as they were.       *)
(***************************************************************************)
FieldsWithinBounds(f) ==
    LET width == ParseField(f.customWidth)
        height == ParseField(f.customHeight)
        mines == ParseField(f.customMines)
    IN  /\ width \in 5 .. MAX_BOARD_SIZE
        /\ height \in 5 .. MAX_BOARD_SIZE
        /\ mines \in 1 .. (width * height - 1)

C18_ValidateSameBounds ==
    [][(/\ form.difficulty = "custom"
        /\ ParseField(form.customWidth) # NaN
        /\ ParseField(form.customHeight) # NaN
        /\ ParseField(form.customMines) # NaN
        /\ ValidateCustomInputs)
       => /\ FieldsWithinBounds(form')
          /\ FieldsWithinBounds(form)
             => /\ form'.customWidth = form.customWidth
                /\ form'.customHeight = form.customHeight
                /\ form'.customMines = form.customMines]_vars

(***************************************************************************)
(* C19.  With mineCount < boardWidth * boardHeight and fair draws,         *)
(* placeMines returns, whatever the excluded cell, and the first click     *)
(* runs to its end with mineCount mines placed.                            *)
(***************************************************************************)
C19_PlaceMinesTerminates ==
    <>(/\ lastOp.op = "click"
       /\ ~state.firstClick
       /\ Cardinality(board.minePositions) = state.mineCount)

\* The first click is over on a board where every cell but the clicked one
\* had to be drawn
C19_Witness ==
    /\ lastOp.op = "click"
    /\ ~state.firstClick
    /\ state.mineCount = state.boardWidth * state.boardHeight - 1
    /\ state.mineCount >= 3
    /\ Cardinality(MineCells(board)) = state.mineCount

(***************************************************************************)
(* C20.  For every cell (r, c) of the board, getAdjacentCells(r, c) is     *)
(* exactly the cells of the board at the 8 offsets around it: each once,   *)
(* never (r, c) itself, at most 8, and at least 3 on a board of two or     *)
(* more rows and columns.                                                  *)
(***************************************************************************)
C20_AdjacentCellsExcludeSelf ==
    \A p \in Cells :
        LET cells == getAdjacentCells(board, p[1], p[2]).cells
            found == {cells[k] : k \in 1 .. Len(cells)}
        IN  /\ p \notin found
            /\ found = Neighbours(board, p)
            /\ Len(cells) = Cardinality(found)
            /\ Len(cells) <= 8
            /\ (board.width >= 2 /\ board.height >= 2) => Len(cells) >= 3

(***************************************************************************)
(* C24.  Between two resets the mines are placed once: firstClick, once    *)
(* false, stays false, and from then on no left-click, right-click, button *)
(* press or release changes the set of mine cells or minePositions.        *)
(***************************************************************************)
C24_MinesImmutable ==
    [][(~state.firstClick /\ lastOp'.op \notin {"restart", "resize", "newgame"})
       => /\ ~state'.firstClick
          /\ MineCells(board') = MineCells(board)
          /\ board'.minePositions = board.minePositions
          /\ Cardinality(board'.minePositions) = state.mineCount]_vars

\* A chord has ended a game: its flood and endGame have run on placed mines
C24_Witness ==
    /\ lastOp = [op |-> "chord", phase |-> "Playing"]
    /\ state.gameOver
    /\ Cardinality(MineCells(board)) = state.mineCount
    /\ Cardinality(RevealedCells(board)) >= 2

(***************************************************************************)
(* C25.  Every revealed cell's cached count is the number of mines among   *)
(* its up-to-8 neighbours in the current mine set, and the cell shows that *)
(* number, or nothing when it is 0.                                        *)
(***************************************************************************)
C25_CountsNeverStale ==
    \A p \in RevealedCells(board) :
        /\ board.cellCache[p] = AdjacentMineCount(board, p)
        /\ board.cells[p].text
              = IF AdjacentMineCount(board, p) = 0
                THEN ""
                ELSE NumberText(AdjacentMineCount(board, p))

\* Revealed cells showing 1 and 2, their counts cached
C25_Witness ==
    /\ \E p \in RevealedCells(board) :
          board.cells[p].text = "1" /\ board.cellCache[p] = 1
    /\ \E p \in RevealedCells(board) :
          board.cells[p].text = "2" /\ board.cellCache[p] = 2

(***************************************************************************)
(* C26.  A left-click on a revealed cell changes nothing of the state, the *)
(* board or the timer; and after any left-click on a cell, a second        *)
(* left-click on that cell changes nothing.                                *)
(***************************************************************************)
C26_RevealIdempotent ==
    [][\A p \in Cells :
          /\ (board.cells[p].revealed /\ ClickOn(p))
             => UNCHANGED <<state, board, timer>>
          /\ (lastOp'.op = "click" /\ ClickOn(p))
             => LET after == [Game EXCEPT !.state = state', !.board = board', !.timer = timer',
                                          !.page = page']
                IN  handleBoardClick(after, p[1], p[2], {}) = after]_vars

\* A click has run in Playing and left a revealed zero cell beside an
\* unrevealed unmarked cell that is no mine
C26_Witness ==
    /\ lastOp = [op |-> "click", phase |-> "Playing"]
    /\ ~state.gameOver
    /\ \E p \in RevealedCells(board) :
          /\ AdjacentMineCount(board, p) = 0
          /\ \E q \in Neighbours(board, p) :
                /\ ~board.cells[q].revealed
                /\ board.cells[q].mark = ""

(***************************************************************************)
(* C27.  The cells revealAdjacentCells leaves revealed, and whether it     *)
(* hits a mine, do not depend on the order of the visit: visiting each     *)
(* cell's neighbours in the reverse order gives the same, for a chord      *)
(* reveal and for the flood of a left-click on a zero cell.                *)
(***************************************************************************)
Reverse(seq) == [k \in 1 .. Len(seq) |-> seq[Len(seq) + 1 - k]]

RECURSIVE revealLoopReversed(_, _)
revealLoopReversed(b, queue) ==
    IF queue = <<>>
    THEN [board |-> b, hitMine |-> FALSE]
    ELSE LET current == Head(queue)
             adj == getAdjacentCells(b, current[1], current[2])
             s == scanAdjacent(adj.board, Tail(queue), Reverse(adj.cells), 1)
         IN  IF s.hitMine
             THEN [board |-> s.board, hitMine |-> TRUE]
             ELSE revealLoopReversed(s.board, s.queue)

SameOutcome(r) ==
    /\ RevealedCells(r.board) = RevealedCells(board')
    /\ r.hitMine = (state'.gameOver /\ ~state'.gameWon)

C27_OrderIndependent ==
    [][\A p \in Cells :
          /\ (\E button \in Buttons : ChordReveals(p, button))
             => SameOutcome(revealLoopReversed(board, <<p>>))
          /\ (~state.firstClick /\ AdjacentMineCount(board, p) = 0 /\ ClickReveals(p))
             => SameOutcome(revealLoopReversed(revealCell(board, p[1], p[2]).board, <<p>>))]_vars

(***************************************************************************)
(* C28.  The adjacency cache is transparent: for every cell of the current *)
(* board getAdjacentCells returns what the two loops compute from the      *)
(* cell and the board's width and height, and every cached entry is that   *)
(* of a cell of the current board.                                         *)
(***************************************************************************)
Recomputed(width, height, p) ==
    LET block == [k \in 1 .. 9 |->
                    <<p[1] + ((k - 1) \div 3) - 1, p[2] + ((k - 1) % 3) - 1>>]
    IN  SelectSeq(block, LAMBDA q : /\ q[1] \in 0 .. height - 1
                                    /\ q[2] \in 0 .. width - 1)

C28_CacheTransparent ==
    /\ \A p \in Cells :
          getAdjacentCells(board, p[1], p[2]).cells
            = Recomputed(state.boardWidth, state.boardHeight, p)
    /\ \A key \in DOMAIN board.adjacentCellsCache :
          \E p \in Cells :
              /\ key = PositionKey(p[1], p[2])
              /\ board.adjacentCellsCache[key]
                    = Recomputed(state.boardWidth, state.boardHeight, p)

\* Three or more entries are cached on a board of two rows
C28_Witness ==
    /\ state.boardHeight = 2
    /\ Cardinality(DOMAIN board.adjacentCellsCache) >= 3

(***************************************************************************)
(* C30.  With the page's events interleaved, the timer is running only in  *)
(* Playing: whenever its animation frame is scheduled the first click has  *)
(* been made and the game is not over.  So once the game is Won or Lost    *)
(* no click, visibility change or resize leaves the timer running.         *)
(***************************************************************************)
C30_TimerRunsOnlyInPlay ==
    timer.running => (~state.firstClick /\ ~state.gameOver)

\* The timer runs again after hiding the page had paused it a second or
\* more into the game
C30_Witness ==
    /\ timer.running
    /\ ~page.hidden
    /\ page.pausedAt > 0

(***************************************************************************)
(* C23.  The timer's frame callback, the visibility-change handler, the    *)
(* before-unload handler and the delayed hiding of the message (and the    *)
(* clock itself) leave every cell's mine, revealed and mark attribute and  *)
(* gameOver, gameWon, firstClick, revealedCount, mineCount and the board's *)
(* dimensions as they were, wherever they fall between the player's        *)
(* inputs.                                                                 *)
(***************************************************************************)
Collaborator ==
    \/ Tick
    \/ Frame
    \/ VisibilityChange
    \/ BeforeUnload
    \/ HideMessage

C23_CollaboratorsLeaveTheGame ==
    [][Collaborator =>
          /\ CellAttributes(board') = CellAttributes(board)
          /\ board'.minePositions = board.minePositions
          /\ state' = state]_vars

\* In the middle of a game with a cell revealed, the page is hidden, the
\* timer is paused and the before-unload handler has run
C23_Witness ==
    /\ ~state.firstClick
    /\ ~state.gameOver
    /\ RevealedCells(board) # {}
    /\ page.hidden
    /\ ~timer.running
    /\ page.uncaught

(***************************************************************************)
(* C29.  Hiding the page during play pauses the timer and showing it again *)
(* resumes it: at the step that restarts the timer, the elapsed time it    *)
(* reports is the elapsed time at which hiding the page had stopped it.    *)
(***************************************************************************)
C29_ResumeContinues ==
    [][(VisibilityChange /\ ~timer.running /\ timer'.running)
          => getCurrentTime(timer', page'.now) = page.pausedAt]_vars

(***************************************************************************)
(* C21.  Saving a snapshot of a game in progress and restoring it gives    *)
(* the same game: once the before-unload handler has run in a game in      *)
(* progress (with storage accepting writes), loadGameState returns a       *)
(* snapshot whose mine positions, per-cell revealed state, mark and shown  *)
(* count, and revealedCount are those of the game.                         *)
(***************************************************************************)
C21_SnapshotReproduces ==
    [][(BeforeUnload /\ ~state.firstClick /\ ~state.gameOver /\ ~page.storageFull)
          => /\ loadGameState(page') # <<>>
             /\ LET restored == loadGameState(page')[1]
                IN  /\ restored.minePositions = board.minePositions
                    /\ restored.state.revealedCount = state.revealedCount
                    /\ \A p \in Cells :
                          /\ restored.revealed[p].isRevealed = board.cells[p].revealed
                          /\ restored.revealed[p].mark = board.cells[p].mark
                          /\ restored.revealed[p].content = board.cells[p].text]_vars

(***************************************************************************)
(* C22.  A failing storage write is not fatal: when localStorage refuses   *)
(* writes, the step that ends the game still sets gameOver, shows every    *)
(* mine and shows the end message without an exception leaving the         *)
(* handler, and the before-unload handler raises no exception.             *)
(***************************************************************************)
C22_SaveFailureNonFatal ==
    [][page.storageFull =>
          /\ (~state.gameOver /\ state'.gameOver)
                => /\ \A p \in MineCells(board') : board'.cells[p].text = BombText
                   /\ page'.message.display = "block"
                   /\ page'.message.text = IF state'.gameWon THEN WinText ELSE LoseText
                   /\ page'.uncaught = page.uncaught
          /\ BeforeUnload => page'.uncaught = page.uncaught]_vars

GamesPlayed(pg) ==
    pg.stats["easy"].gamesPlayed + pg.stats["medium"].gamesPlayed
      + pg.stats["hard"].gamesPlayed + pg.stats["custom"].gamesPlayed

Wins(pg) ==
    pg.stats["easy"].wins + pg.stats["medium"].wins
      + pg.stats["hard"].wins + pg.stats["custom"].wins

C32_EndsAtMostOnce ==
    /\ [](/\ state.gameWon => state.gameOver
          /\ \A d \in DOMAIN page.stats :
                page.stats[d].wins <= page.stats[d].gamesPlayed)
    /\ [][LET ended == GamesPlayed(page') - GamesPlayed(page)
          IN  /\ ended \in {0, 1}
              /\ (ended = 1) <=> (~state.gameOver /\ state'.gameOver)
              /\ Wins(page') - Wins(page) \in {0, ended}
              /\ (Wins(page') - Wins(page) = 1) <=> (ended = 1 /\ state'.gameWon)]_vars

\* A chord has hit a mine: the game is lost, not won, and counted once
C32_Witness ==
    /\ lastOp.op = "chord"
    /\ state.gameOver
    /\ ~state.gameWon
    /\ GamesPlayed(page) = 1

(***************************************************************************)
(* C33.  A resize while the game is NotStarted or Playing leaves the game  *)
(* NotStarted on a fresh board of the same dimensions and mine count: no   *)
(* mine, no revealed cell, no mark, no text, revealedCount 0.  A resize    *)
(* while the game is Won or Lost leaves the board, the game state and the  *)
(* timer as they were.                                                     *)
(***************************************************************************)
C33_ResizeResetsUnlessOver ==
    [][(lastOp'.op = "resize" /\ Resize)
          => IF Phase \in {"NotStarted", "Playing"}
             THEN /\ Phase' = "NotStarted"
                  /\ state'.boardWidth = state.boardWidth
                  /\ state'.boardHeight = state.boardHeight
                  /\ state'.mineCount = state.mineCount
                  /\ state'.revealedCount = 0
                  /\ DOMAIN board'.cells = DOMAIN board.cells
                  /\ board'.minePositions = {}
                  /\ MineCells(board') = {}
                  /\ RevealedCells(board') = {}
                  /\ MarkedCells(board') = {}
                  /\ \A q \in DOMAIN board'.cells : board'.cells[q].text = ""
                  /\ ~timer'.running
             ELSE /\ board' = board
                  /\ state' = state
                  /\ timer' = timer]_vars

\* A resize during play has discarded a board with mines, and the game is
\* NotStarted
C33_Witness ==
    /\ lastOp = [op |-> "resize", phase |-> "Playing"]
    /\ state.firstClick
    /\ ~state.gameOver
    /\ MineCells(board) = {}
    /\ RevealedCells(board) = {}

(***************************************************************************)
(* C34.  leftMouseDown and rightMouseDown are the pressed state of the     *)
(* left and right buttons after any sequence of presses and releases, on   *)
(* cells or elsewhere, while the game is over and across resets; so a      *)
(* press on a revealed number reaches handleDualButtonPress only with both *)
(* buttons down.                                                           *)
(***************************************************************************)
C34_ChordOnlyWhileBothHeld ==
    /\ [](/\ state.leftMouseDown = page.held[0]
          /\ state.rightMouseDown = page.held[2])
    /\ [][\A p \in Cells, button \in Buttons :
            (PressOn(p, button) /\ Chord(p, button)
                /\ isRevealedNumber(board.cells[p]))
              => (page'.held[0] /\ page'.held[2])]_vars

(***************************************************************************)
(* C35.  Every coordinate at which a cell is read or written lies on the   *)
(* current board, 0 <= row < boardHeight and 0 <= col < boardWidth: the    *)
(* board holds exactly the cells of these coordinates; the dataset.row and *)
(* dataset.col the handlers parse and pass to revealCell and               *)
(* revealAdjacentCells are the cell's own; the positions placeMines stored *)
(* and endGame splits are on the board; and the cells getAdjacentCells     *)
(* returns, computed or cached, are on the board, as are the cached keys.  *)
(***************************************************************************)
InRange(q) ==
    /\ 0 <= q[1] /\ q[1] < state.boardHeight
    /\ 0 <= q[2] /\ q[2] < state.boardWidth

C35_CoordinatesInRange ==
    /\ board.width = state.boardWidth
    /\ board.height = state.boardHeight
    /\ \A q \in DOMAIN board.cells :
          /\ InRange(q)
          /\ board.cells[q].row = ToString(q[1])
          /\ board.cells[q].col = ToString(q[2])
          /\ LET adjacent == getAdjacentCells(board, q[1], q[2]).cells
             IN  \A k \in 1 .. Len(adjacent) : InRange(adjacent[k])
    /\ \A q \in Positions(state.boardWidth, state.boardHeight) :
          q \in DOMAIN board.cells
    /\ \A position \in board.minePositions :
          \E q \in DOMAIN board.cells : position = PositionKey(q[1], q[2])
    /\ \A key \in DOMAIN board.adjacentCellsCache :
          /\ \E q \in DOMAIN board.cells : key = PositionKey(q[1], q[2])
          /\ \A k \in 1 .. Len(board.adjacentCellsCache[key]) :
                InRange(board.adjacentCellsCache[key][k])

\* On a board of two rows and two columns the mines are placed, a corner's
\* neighbours are cached, a cell is revealed and endGame has shown the mines
C35_Witness ==
    /\ state.boardWidth = 2
    /\ state.boardHeight = 2
    /\ state.gameOver
    /\ board.minePositions # {}
    /\ ShownAsMine(board) # {}
    /\ RevealedCells(board) # {}
    /\ DOMAIN board.adjacentCellsCache # {}

====
